---------------------------- MODULE Spec2Model ----------------------------
(***************************************************************************)
(* GitAwareBackup (src/tools/backup-dir/main.py): construction, the scan   *)
(* pass, the write pass and the failure handling of create_backup, over a  *)
(* bounded universe of source trees and ignore files.                      *)
(*                                                                         *)
(* A path is the sequence of its components (<<"w","s","a","k.txt">> is    *)
(* /w/s/a/k.txt); names and ignore patterns are strings.                   *)
(***************************************************************************)
EXTENDS Integers, Sequences, FiniteSets, TLC

(***************************************************************************)
(* Bounds of the explored universe.                                        *)
(***************************************************************************)
\* at most this many files in the source tree when the run starts
MaxFiles == 2
\* at most this many files of one run raise while they are archived
MaxFileErrors == 2

(***************************************************************************)
(* Paths.                                                                  *)
(***************************************************************************)
\* the directory given to the constructor: /w/s
SourceDir == <<"w", "s">>

NoPath == <<>>

\* the text of an absolute path, "/w/s/a"
RECURSIVE PathStr(_)
PathStr(p) == IF p = <<>> THEN "" ELSE "/" \o p[1] \o PathStr(Tail(p))

\* str.startswith
StartsWith(s, t) == Len(t) <= Len(s) /\ SubSeq(s, 1, Len(t)) = t

\* str.endswith
EndsWith(s, t) == Len(t) <= Len(s) /\ SubSeq(s, Len(s) - Len(t) + 1, Len(s)) = t

\* os.path.join(root, name)
Join(root, name) == Append(root, name)

\* os.path.basename
Basename(p) == p[Len(p)]

\* os.path.dirname
Dirname(p) == SubSeq(p, 1, Len(p) - 1)

\* d is p or a directory above p (component-wise)
IsPrefix(d, p) == Len(d) <= Len(p) /\ SubSeq(p, 1, Len(d)) = d

IsProperPrefix(d, p) == Len(d) < Len(p) /\ SubSeq(p, 1, Len(d)) = d

\* length of the longest common directory prefix of two paths
RECURSIVE CommonLen(_, _)
CommonLen(p, q) ==
    IF p = <<>> \/ q = <<>> \/ p[1] # q[1] THEN 0
    ELSE 1 + CommonLen(Tail(p), Tail(q))

\* os.path.relpath(path, start) for absolute, normalised paths:
\* one ".." per component of start below the common prefix, then the rest
\* of path; "." when the two are equal
RelPath(path, start) ==
    LET c    == CommonLen(path, start)
        ups  == [i \in 1..(Len(start) - c) |-> ".."]
        rest == SubSeq(path, c + 1, Len(path))
    IN  IF ups \o rest = <<>> THEN <<".">> ELSE ups \o rest

(***************************************************************************)
(* Ignore patterns (pathspec, style gitwildmatch), for patterns of one     *)
(* segment: NAME, *SUFFIX, each optionally with a leading "!" and a        *)
(* trailing "/".                                                           *)
(***************************************************************************)
\* GitWildMatchPattern: the pattern's regular expression, kept as its parts.
\* "!" clears include; a trailing "/" makes the regex end in "/.*" instead
\* of "(?:/.*)?"; a leading "*" becomes "[^/]*"; a single segment is
\* preceded by "(?:.+/)?"
CompilePattern(line) ==
    LET neg  == StartsWith(line, "!")
        l1   == IF neg THEN SubSeq(line, 2, Len(line)) ELSE line
        dir  == EndsWith(l1, "/")
        l2   == IF dir THEN SubSeq(l1, 1, Len(l1) - 1) ELSE l1
        star == StartsWith(l2, "*")
        l3   == IF star THEN SubSeq(l2, 2, Len(l2)) ELSE l2
    IN  [include |-> ~neg, dirOnly |-> dir, star |-> star, text |-> l3]

\* PathSpec.from_lines('gitwildmatch', f)
FromLines(lines) == [i \in 1..Len(lines) |-> CompilePattern(lines[i])]

\* the segment regex against one path component
SegMatch(pat, name) ==
    IF pat.star THEN EndsWith(name, pat.text) ELSE name = pat.text

\* the pattern's regex against a relative path: some component matches the
\* segment; for a directory-only pattern that component is not the last
PatternMatch(pat, rel) ==
    \E i \in 1..Len(rel) :
        /\ SegMatch(pat, rel[i])
        /\ pat.dirOnly => i < Len(rel)

\* PathSpec.match_file: the last pattern that matches decides
RECURSIVE MatchFrom(_, _, _)
MatchFrom(spec, rel, i) ==
    IF i = 0 THEN FALSE
    ELSE IF PatternMatch(spec[i], rel) THEN spec[i].include
    ELSE MatchFrom(spec, rel, i - 1)

MatchFile(spec, rel) == MatchFrom(spec, rel, Len(spec))

(***************************************************************************)
(* The universe of source trees, ignore files and invocations.             *)
(***************************************************************************)
\* the files a source tree may hold
CandidateFiles ==
    { SourceDir \o r : r \in { <<"f.log">>, <<".gitignore">>,
                               <<"a", "k.txt">>, <<"a", ".gitignore">>,
                               <<"a", "temp", "k.txt">>, <<"ab", "k.txt">>,
                               <<"temp", "k.txt">>, <<".git", ".gitignore">>,
                               <<"a", ".git", "k.txt">> } }

\* the order in which a directory listing returns its entries
NameOrder ==
    <<".git", ".gitignore", "a", "ab", "f.log", "k.txt", "s_T.tar.gz", "temp">>

\* the contents an ignore file may have (its lines, in order)
IgnoreContents ==
    { <<>>, <<"*.log">>, <<"k.txt">>, <<"temp">>, <<"temp/">>, <<"!k.txt">>,
      <<"temp", "!k.txt">>, <<"temp/", "!k.txt">>, <<"!k.txt", "temp/">>,
      <<".gitignore">>, <<"!.gitignore">> }

Trees == { t \in SUBSET CandidateFiles : Cardinality(t) <= MaxFiles }

IgnoreFilesOf(t) == { f \in t : Basename(f) = ".gitignore" }

\* output_file argument: None, or a path (absolute or relative to cwd)
None == [abs |-> FALSE, comps |-> <<>>]

\* (working directory, output argument, a file already at the output path)
Invocations ==
    { [cwd |-> SourceDir, output |-> None, pre |-> FALSE],
      [cwd |-> <<"w">>, output |-> [abs |-> TRUE, comps |-> <<"w", "o.tgz">>],
       pre |-> FALSE],
      [cwd |-> <<"w">>, output |-> [abs |-> TRUE, comps |-> <<"w", "o.tgz">>],
       pre |-> TRUE] }

\* the -c argument
Compression == "gz"

\* datetime.now().strftime(...), one fixed instant
Timestamp == "T"

(***************************************************************************)
(* State.                                                                  *)
(***************************************************************************)
VARIABLES
    srcKind,          \* what is at SourceDir: "dir", "file" or "missing"
    disk,             \* the files of the source tree
    ignoreText,       \* the lines of every .gitignore of the tree
    cwd,              \* the working directory of the process
    outputArg,        \* the output_file argument
    verbose,          \* self.verbose (manifest mode)
    pc,               \* position in __init__ / create_backup
    output_file,      \* self.output_file
    outContent,       \* the file at the output path: "none", "old" (there
                      \* before the run), "partial" (opened by the run,
                      \* not closed normally) or "complete"
    tempExists,       \* the directory made by tempfile.mkdtemp exists
    tar,              \* the archive handle: "none", "open", "closed"
    archive,          \* the archive's entries (arcnames), in order
    manifest,         \* the per-file lines of backup_manifest.txt (arcnames)
    gitignore_specs,  \* self.gitignore_specs
    excluded_paths,   \* self.excluded_paths
    total_files,      \* self.total_files
    processed_files,  \* self.processed_files
    stack,            \* directories os.walk has still to yield
    curFiles,         \* files of the yielded directory still to visit
    error,            \* the exception delivered to the caller, "" if none
    returned,         \* the value returned by create_backup
    removeFailed,     \* history: os.remove in the except clause raised
    raised,           \* the exception raised inside create_backup, "" if none
    closes,           \* history: how many times the archive handle was closed
    readFailed,       \* history: directories whose .gitignore could not be read
    offered,          \* history: files passed to tar.add
    failedFiles,      \* history: files whose add or checksum raised
    ignoreRead        \* history: .gitignore files opened by the scan

vars == <<srcKind, disk, ignoreText, cwd, outputArg, verbose, pc,
          output_file, outContent, tempExists, tar, archive, manifest,
          gitignore_specs, excluded_paths, total_files, processed_files,
          stack, curFiles, error, returned, removeFailed, raised, closes, readFailed,
          offered, failedFiles,
          ignoreRead>>

\* the invocation and the source tree: never written by the program
env == <<srcKind, disk, ignoreText, cwd, outputArg, verbose>>

(***************************************************************************)
(* Helpers of the operations.                                              *)
(***************************************************************************)
\* mutant of IsDir: the constructor's validation accepts anything
IsDirAlways(kind) == TRUE

\* os.path.isdir(self.source_dir)
IsDir(kind) == kind = "dir"

\* _get_extension
GetExtension(compression) ==
    CASE compression = "gz"   -> ".gz"
      [] compression = "bz2"  -> ".bz2"
      [] compression = "xz"   -> ".xz"
      [] compression = "none" -> ""
      [] OTHER                -> ".gz"

\* the default output name, <basename>_<timestamp>.tar<extension>
DefaultName ==
    Basename(SourceDir) \o "_" \o Timestamp \o ".tar" \o GetExtension(Compression)

\* os.path.abspath of a path record
AbsPath(f) == IF f.abs THEN f.comps ELSE cwd \o f.comps

\* mutant of ReturnValue: self.output_file returned as it was given
ReturnValueRaw(f) == f.comps

\* the value create_backup returns
ReturnValue(f) == AbsPath(f)

\* a file exists at the output path
outExists == outContent # "none"

\* the files of the source tree as the file system shows them now
FilesNow ==
    disk \cup (IF outExists /\ IsProperPrefix(SourceDir, AbsPath(output_file))
               THEN {AbsPath(output_file)} ELSE {})

\* the sequence of the names of NameOrder that are in S
Listing(S) == SelectSeq(NameOrder, LAMBDA n : n \in S)

\* os.walk: the subdirectories and the files of directory d
DirNames(d) ==
    Listing({ f[Len(d) + 1] : f \in { g \in FilesNow :
                                        IsPrefix(d, g) /\ Len(g) > Len(d) + 1 } })

FileNames(d) ==
    Listing({ Basename(f) : f \in { g \in FilesNow : Dirname(g) = d } })

\* the elements of a sequence
Range(s) == { s[i] : i \in 1..Len(s) }

\* mutant of ScanDirs: the scan descends into .git as into any directory
ScanDirsNoPrune(dirs) == dirs

\* the scan's handling of '.git' in dirs: the directories it descends into
ScanDirs(dirs) == SelectSeq(dirs, LAMBDA n : n # ".git")

\* the scan's additions to excluded_paths for directory root
ScanExcluded(root, dirs) ==
    IF ".git" \in Range(dirs) THEN {Join(root, ".git")} ELSE {}

\* mutant of SpecsExclude: the rule sets are merged, so that a negation
\* pattern of any rule set above the path takes the path back in
SpecsExcludeMerged(path, specs) ==
    /\ \E dir_path \in DOMAIN specs :
          /\ StartsWith(PathStr(path), PathStr(dir_path))
          /\ MatchFile(specs[dir_path], RelPath(path, dir_path))
    /\ ~\E dir_path \in DOMAIN specs :
          /\ StartsWith(PathStr(path), PathStr(dir_path))
          /\ \E i \in 1..Len(specs[dir_path]) :
                /\ ~specs[dir_path][i].include
                /\ PatternMatch(specs[dir_path][i], RelPath(path, dir_path))

\* the for-loop of _should_exclude over gitignore_specs
SpecsExclude(path, specs) ==
    \E dir_path \in DOMAIN specs :
        /\ StartsWith(PathStr(path), PathStr(dir_path))
        /\ MatchFile(specs[dir_path], RelPath(path, dir_path))

\* _should_exclude: the value it returns; whenever it returns TRUE for a
\* path not yet in excluded_paths it also adds the path to excluded_paths
ShouldExclude(path, isdir, specs, excl) ==
    \/ path \in excl
    \/ Basename(path) = ".git" /\ isdir
    \/ SpecsExclude(path, specs)

\* the name of a file in the archive
Arcname(file_path) == RelPath(file_path, Dirname(SourceDir))

\* tar.add(file_path, arcname): tarfile skips the archive's own file
TarAdd(arch, file_path, arcname) ==
    IF file_path = AbsPath(output_file) THEN arch ELSE Append(arch, arcname)

ManifestName == <<"backup_manifest.txt">>
(***************************************************************************)
(* Initial states: an invocation and a source tree, nothing constructed.   *)
(***************************************************************************)
Init ==
    /\ srcKind \in {"dir", "file", "missing"}
    /\ disk \in Trees
    /\ srcKind # "dir" => disk = {}
    /\ ignoreText \in [IgnoreFilesOf(disk) -> IgnoreContents]
    /\ \E inv \in Invocations :
          /\ cwd = inv.cwd
          /\ outputArg = inv.output
          /\ outContent = IF inv.pre THEN "old" ELSE "none"
    /\ verbose \in BOOLEAN
    /\ pc = "init"
    /\ output_file = None
    /\ tempExists = FALSE
    /\ tar = "none"
    /\ archive = <<>>
    /\ manifest = <<>>
    /\ gitignore_specs = <<>>
    /\ excluded_paths = {}
    /\ total_files = 0
    /\ processed_files = 0
    /\ stack = <<>>
    /\ curFiles = <<>>
    /\ error = ""
    /\ returned = NoPath
    /\ removeFailed = FALSE
    /\ raised = ""
    /\ closes = 0
    /\ offered = {}
    /\ failedFiles = {}
    /\ ignoreRead = {}
    /\ readFailed = {}

(***************************************************************************)
(* GitAwareBackup.__init__                                                 *)
(***************************************************************************)
Construct ==
    /\ pc = "init"
    /\ IF ~IsDir(srcKind)
       THEN /\ pc' = "ctor_failed"
            /\ error' = "ValueError"
            /\ UNCHANGED output_file
       ELSE /\ pc' = "constructed"
            /\ output_file' = IF outputArg = None
                              THEN [abs |-> FALSE, comps |-> <<DefaultName>>]
                              ELSE outputArg
            /\ UNCHANGED error
    /\ UNCHANGED <<env, outContent, tempExists, tar, archive, manifest,
                   gitignore_specs, excluded_paths, total_files,
                   processed_files, stack, curFiles, returned, offered,
                   failedFiles, ignoreRead, readFailed,
                   removeFailed, raised, closes>>

(***************************************************************************)
(* create_backup: failure handling.                                        *)
(***************************************************************************)
\* mutant of Raise: the handle is closed by an explicit call at the end of
\* the try block only, so an exception leaves it open
RaiseNoClose(kind) ==
    /\ pc' = "except"
    /\ raised' = kind
    /\ UNCHANGED <<error, tar, closes, outContent, removeFailed>>

\* an exception leaves the try block: the with-block, when it was entered,
\* closes the archive handle on the way out, and the except-Exception clause
\* is reached with the exception in flight
Raise(kind) ==
    /\ pc' = "except"
    /\ raised' = kind
    /\ tar' = IF tar = "open" THEN "closed" ELSE tar
    /\ closes' = IF tar = "open" THEN closes + 1 ELSE closes
    /\ UNCHANGED <<error, outContent, removeFailed>>

\* mutant of Delivered: an exception of os.remove replaces the one in flight
DeliveredMasked(exc, removeRaised) ==
    IF removeRaised THEN "OSError: os.remove" ELSE exc

\* the exception the except clause hands to the caller: the exception of
\* os.remove is caught and logged, then the bare raise re-raises the one in
\* flight
Delivered(exc, removeRaised) == exc

\* the except-Exception clause: remove the file at the output path if there
\* is one (a failure of the removal is swallowed), then re-raise
Handler ==
    /\ pc = "except"
    /\ pc' = "failed"
    /\ \E removeOk \in BOOLEAN :
          /\ outContent' = IF outExists /\ removeOk THEN "none" ELSE outContent
          /\ removeFailed' = (outExists /\ ~removeOk)
          /\ error' = Delivered(raised, outExists /\ ~removeOk)
    /\ UNCHANGED <<env, output_file, tempExists, tar, archive, manifest,
                   gitignore_specs, excluded_paths, total_files,
                   processed_files, stack, curFiles, returned, offered,
                   failedFiles, ignoreRead, readFailed, raised, closes>>

\* KeyboardInterrupt is not an Exception: the except clause is passed by;
\* only the with-block closes the handle
Interrupt ==
    /\ pc \in {"scanning", "mktemp", "open", "writing", "finalize", "close",
               "rmtemp", "report"}
    /\ pc' = "failed"
    /\ error' = "KeyboardInterrupt"
    /\ raised' = "KeyboardInterrupt"
    /\ tar' = IF tar = "open" THEN "closed" ELSE tar
    /\ closes' = IF tar = "open" THEN closes + 1 ELSE closes
    /\ UNCHANGED <<env, output_file, outContent, tempExists, archive,
                   manifest, gitignore_specs, excluded_paths, total_files,
                   processed_files, stack, curFiles, returned, offered,
                   failedFiles, ignoreRead, readFailed,
                   removeFailed>>

(***************************************************************************)
(* _scan_directory                                                         *)
(***************************************************************************)
\* entry of create_backup; os.walk yields nothing for a top that is not a
\* directory
StartBackup ==
    /\ pc = "constructed"
    /\ stack' = IF srcKind = "dir" THEN <<SourceDir>> ELSE <<>>
    /\ pc' = IF srcKind = "dir" THEN "scanning" ELSE "mktemp"
    /\ UNCHANGED <<env, output_file, outContent, tempExists, tar, archive,
                   manifest, gitignore_specs, excluded_paths, total_files,
                   processed_files, curFiles, error, returned, offered,
                   failedFiles, ignoreRead, readFailed,
                   removeFailed, raised, closes>>

\* mutant of SpecsAfterRead: a .gitignore that cannot be read registers an
\* empty rule set for its directory
SpecsAfterReadEmpty(specs, root, lines, readOk) ==
    [d \in DOMAIN specs \cup {root} |->
        IF d = root THEN (IF readOk THEN FromLines(lines) ELSE <<>>)
        ELSE specs[d]]

\* if '.gitignore' in files: the try block registers the rule set read
\* from the file; the except clause logs a warning and registers nothing
SpecsAfterRead(specs, root, lines, readOk) ==
    IF readOk
    THEN [d \in DOMAIN specs \cup {root} |->
            IF d = root THEN FromLines(lines) ELSE specs[d]]
    ELSE specs

\* one iteration of the scan's os.walk loop; readOk: _read_gitignore
\* returns (otherwise it raises and only a warning is logged)
ScanDir(readOk) ==
    /\ pc = "scanning"
    /\ stack # <<>>
    /\ LET root  == Head(stack)
           dirs  == DirNames(root)
           files == FileNames(root)
           kept  == ScanDirs(dirs)
           gi    == Join(root, ".gitignore")
           next  == [i \in 1..Len(kept) |-> Join(root, kept[i])] \o Tail(stack)
       IN  /\ excluded_paths' = excluded_paths \cup ScanExcluded(root, dirs)
           /\ IF ".gitignore" \in Range(files)
              THEN /\ ignoreRead' = ignoreRead \cup {gi}
                   /\ readFailed' = IF readOk THEN readFailed
                                    ELSE readFailed \cup {root}
                   /\ gitignore_specs' =
                        SpecsAfterRead(gitignore_specs, root, ignoreText[gi],
                                       readOk)
              ELSE /\ readOk
                   /\ UNCHANGED <<ignoreRead, readFailed, gitignore_specs>>
           /\ total_files' = total_files + Len(files)
           /\ stack' = next
           /\ pc' = IF next = <<>> THEN "mktemp" ELSE "scanning"
    /\ UNCHANGED <<env, output_file, outContent, tempExists, tar, archive,
                   manifest, processed_files, curFiles, error, returned,
                   offered, failedFiles,
                   removeFailed, raised, closes>>

(***************************************************************************)
(* create_backup: the try block.                                           *)
(***************************************************************************)
\* tempfile.mkdtemp()
MkTemp ==
    /\ pc = "mktemp"
    /\ \/ /\ tempExists' = TRUE
          /\ pc' = "open"
          /\ UNCHANGED <<error, tar, outContent, removeFailed, raised, closes>>
       \/ /\ Raise("OSError: mkdtemp")
          /\ UNCHANGED tempExists
    /\ UNCHANGED <<env, output_file, archive, manifest, gitignore_specs,
                   excluded_paths, total_files, processed_files, stack,
                   curFiles, returned, offered, failedFiles, ignoreRead, readFailed>>

\* tarfile.open(self.output_file, mode) and the writing of the manifest's
\* header lines
OpenArchive ==
    /\ pc = "open"
    /\ \/ /\ outContent' = "partial"
          /\ tar' = "open"
          /\ pc' = "writing"
          /\ stack' = <<SourceDir>>
          /\ UNCHANGED <<error, removeFailed, raised, closes>>
       \/ \* tarfile.open raises: the output path is left as it was
          /\ Raise("OSError: tarfile.open")
          /\ UNCHANGED stack
       \/ \* the manifest cannot be written: the archive is already open
          /\ pc' = "except"
          /\ raised' = "OSError: manifest header"
          /\ tar' = "closed"
          /\ closes' = closes + 1
          /\ outContent' = "partial"
          /\ UNCHANGED <<error, removeFailed>>
          /\ UNCHANGED stack
    /\ UNCHANGED <<env, output_file, tempExists, archive, manifest,
                   gitignore_specs, excluded_paths, total_files,
                   processed_files, curFiles, returned, offered, failedFiles,
                   ignoreRead, readFailed>>

\* where the write pass stands once the walk has nothing left
AfterWalk(stk, fls) == IF stk = <<>> /\ fls = <<>> THEN "finalize" ELSE "writing"

\* one iteration of the write pass's os.walk loop up to the file loop:
\* dirs[:] = [d for d in dirs if not self._should_exclude(...)]
WalkDir ==
    /\ pc = "writing"
    /\ curFiles = <<>>
    /\ stack # <<>>
    /\ LET root  == Head(stack)
           dirs  == [i \in 1..Len(DirNames(root)) |-> Join(root, DirNames(root)[i])]
           files == [i \in 1..Len(FileNames(root)) |-> Join(root, FileNames(root)[i])]
           excl  == { d \in Range(dirs) :
                        ShouldExclude(d, TRUE, gitignore_specs, excluded_paths) }
           kept  == SelectSeq(dirs, LAMBDA d : d \notin excl)
       IN  /\ excluded_paths' = excluded_paths \cup excl
           /\ stack' = kept \o Tail(stack)
           /\ curFiles' = files
           /\ pc' = AfterWalk(kept \o Tail(stack), files)
    /\ UNCHANGED <<env, output_file, outContent, tempExists, tar, archive,
                   manifest, gitignore_specs, total_files, processed_files,
                   error, returned, offered, failedFiles, ignoreRead, readFailed,
                   removeFailed, raised, closes>>

\* a file for which _should_exclude returns True
SkipFile ==
    /\ pc = "writing"
    /\ curFiles # <<>>
    /\ ShouldExclude(Head(curFiles), FALSE, gitignore_specs, excluded_paths)
    /\ excluded_paths' = excluded_paths \cup {Head(curFiles)}
    /\ curFiles' = Tail(curFiles)
    /\ pc' = AfterWalk(stack, Tail(curFiles))
    /\ UNCHANGED <<env, output_file, outContent, tempExists, tar, archive,
                   manifest, gitignore_specs, total_files, processed_files,
                   stack, error, returned, offered, failedFiles, ignoreRead, readFailed,
                   removeFailed, raised, closes>>

\* an admitted file, added (and in verbose mode listed in the manifest)
AddFile ==
    /\ pc = "writing"
    /\ curFiles # <<>>
    /\ ~ShouldExclude(Head(curFiles), FALSE, gitignore_specs, excluded_paths)
    /\ LET file_path == Head(curFiles)
           arcname   == Arcname(file_path)
       IN  /\ archive' = TarAdd(archive, file_path, arcname)
           /\ manifest' = IF verbose THEN Append(manifest, arcname) ELSE manifest
           /\ offered' = offered \cup {file_path}
    /\ processed_files' = processed_files + 1
    /\ curFiles' = Tail(curFiles)
    /\ pc' = AfterWalk(stack, Tail(curFiles))
    /\ UNCHANGED <<env, output_file, outContent, tempExists, tar,
                   gitignore_specs, excluded_paths, total_files, stack, error,
                   returned, failedFiles, ignoreRead, readFailed,
                   removeFailed, raised, closes>>

\* mutant of PerFileError: the exception of one file reaches the outer
\* except clause
PerFileErrorFatal(kind) == Raise(kind)

\* what the except clause around one file does with an exception
PerFileError(kind) ==
    /\ pc' = AfterWalk(stack, Tail(curFiles))
    /\ UNCHANGED <<error, tar, outContent, removeFailed, raised, closes>>

\* an admitted file whose tar.add raises
AddFails ==
    /\ pc = "writing"
    /\ curFiles # <<>>
    /\ Cardinality(failedFiles) < MaxFileErrors
    /\ ~ShouldExclude(Head(curFiles), FALSE, gitignore_specs, excluded_paths)
    /\ offered' = offered \cup {Head(curFiles)}
    /\ failedFiles' = failedFiles \cup {Head(curFiles)}
    /\ curFiles' = Tail(curFiles)
    /\ PerFileError("OSError")
    /\ UNCHANGED <<env, output_file, tempExists, archive, manifest,
                   gitignore_specs, excluded_paths, total_files,
                   processed_files, stack, returned, ignoreRead, readFailed>>

\* verbose mode: the file is added, then os.stat, _calculate_checksum or
\* the append to the manifest raises
ChecksumFails ==
    /\ pc = "writing"
    /\ curFiles # <<>>
    /\ Cardinality(failedFiles) < MaxFileErrors
    /\ verbose
    /\ ~ShouldExclude(Head(curFiles), FALSE, gitignore_specs, excluded_paths)
    /\ archive' = TarAdd(archive, Head(curFiles), Arcname(Head(curFiles)))
    /\ offered' = offered \cup {Head(curFiles)}
    /\ failedFiles' = failedFiles \cup {Head(curFiles)}
    /\ curFiles' = Tail(curFiles)
    /\ PerFileError("OSError")
    /\ UNCHANGED <<env, output_file, tempExists, manifest, gitignore_specs,
                   excluded_paths, total_files, processed_files, stack,
                   returned, ignoreRead, readFailed>>

\* if self.verbose: tar.add(manifest_path, arcname="backup_manifest.txt")
Finalize ==
    /\ pc = "finalize"
    /\ \/ /\ archive' = IF verbose THEN Append(archive, ManifestName) ELSE archive
          /\ pc' = "close"
          /\ UNCHANGED <<error, tar, outContent, removeFailed, raised, closes>>
       \/ /\ verbose
          /\ Raise("OSError: add manifest")
          /\ UNCHANGED archive
    /\ UNCHANGED <<env, output_file, tempExists, manifest, gitignore_specs,
                   excluded_paths, total_files, processed_files, stack,
                   curFiles, returned, offered, failedFiles, ignoreRead, readFailed>>

\* the end of the with-block: TarFile.close()
CloseArchive ==
    /\ pc = "close"
    /\ \/ /\ tar' = "closed"
          /\ outContent' = "complete"
          /\ closes' = closes + 1
          /\ pc' = "rmtemp"
          /\ UNCHANGED <<error, removeFailed, raised>>
       \/ Raise("OSError: close")
    /\ UNCHANGED <<env, output_file, tempExists, archive, manifest,
                   gitignore_specs, excluded_paths, total_files,
                   processed_files, stack, curFiles, returned, offered,
                   failedFiles, ignoreRead, readFailed>>

\* shutil.rmtree(temp_dir)
RemoveTemp ==
    /\ pc = "rmtemp"
    /\ \/ /\ tempExists' = FALSE
          /\ pc' = "report"
          /\ UNCHANGED <<error, tar, outContent, removeFailed, raised, closes>>
       \/ /\ Raise("OSError: rmtree")
          /\ UNCHANGED tempExists
    /\ UNCHANGED <<env, output_file, archive, manifest, gitignore_specs,
                   excluded_paths, total_files, processed_files, stack,
                   curFiles, returned, offered, failedFiles, ignoreRead, readFailed>>

\* os.path.getsize, the summary, return os.path.abspath(self.output_file)
Report ==
    /\ pc = "report"
    /\ \/ /\ pc' = "done"
          /\ returned' = ReturnValue(output_file)
          /\ UNCHANGED <<error, tar, outContent, removeFailed, raised, closes>>
       \/ /\ Raise("OSError: getsize")
          /\ UNCHANGED returned
    /\ UNCHANGED <<env, output_file, tempExists, archive, manifest,
                   gitignore_specs, excluded_paths, total_files,
                   processed_files, stack, curFiles, offered, failedFiles,
                   ignoreRead, readFailed>>

Next ==
    \/ Construct
    \/ StartBackup
    \/ \E readOk \in BOOLEAN : ScanDir(readOk)
    \/ MkTemp
    \/ OpenArchive
    \/ WalkDir
    \/ SkipFile
    \/ AddFile
    \/ AddFails
    \/ ChecksumFails
    \/ Finalize
    \/ CloseArchive
    \/ RemoveTemp
    \/ Report
    \/ Handler
    \/ Interrupt

Spec == Init /\ [][Next]_vars

(***************************************************************************)
(* Notions the claims are stated in.                                       *)
(***************************************************************************)
\* f lies inside a directory named .git of the source tree
InGit(f) == \E i \in (Len(SourceDir) + 1)..(Len(f) - 1) : f[i] = ".git"

\* the registered rule sets of the directories above f
Chain(f) == { D \in DOMAIN gitignore_specs : IsProperPrefix(D, f) }

\* the directories strictly between D and f
DirsBetween(D, f) == { SubSeq(f, 1, n) : n \in (Len(D) + 1)..(Len(f) - 1) }

\* number of entries of a sequence equal to x
Count(seq, x) == Cardinality({ i \in 1..Len(seq) : seq[i] = x })

\* some pattern of the rule set, negated or not, names a component of rel
Mentions(spec, rel) ==
    \E i \in 1..Len(spec) : \E j \in 1..Len(rel) : SegMatch(spec[i], rel[j])

\* no rule of any rule set above f has anything to say about f
Unmatched(f) ==
    \A D \in Chain(f) : ~Mentions(gitignore_specs[D], RelPath(f, D))

\* the verdict of a rule set on a directory: as for a file, except that a
\* directory-only pattern (trailing "/") may match the directory itself
RECURSIVE DirMatchFrom(_, _, _)
DirMatchFrom(spec, rel, i) ==
    IF i = 0 THEN FALSE
    ELSE IF \E j \in 1..Len(rel) : SegMatch(spec[i], rel[j]) THEN spec[i].include
    ELSE DirMatchFrom(spec, rel, i - 1)

DirMatched(spec, rel) == DirMatchFrom(spec, rel, Len(spec))

\* f is ignored by a rule set above it: the rule set matches f, or matches
\* a directory f lies under
Ignored(f) ==
    \E D \in Chain(f) :
        \/ MatchFile(gitignore_specs[D], RelPath(f, D))
        \/ \E q \in DirsBetween(D, f) :
              DirMatched(gitignore_specs[D], RelPath(q, D))

\* the absolute location of the output file, from the invocation
OutputLocation ==
    IF outputArg = None THEN cwd \o <<DefaultName>>
    ELSE IF outputArg.abs THEN outputArg.comps
    ELSE cwd \o outputArg.comps

\* every file of the tree was offered to the archive, or was excluded, or
\* lies under an excluded directory
WalkComplete ==
    \A f \in disk :
        \/ f \in offered
        \/ f \in excluded_paths
        \/ \E q \in DirsBetween(SourceDir, f) : q \in excluded_paths

(***************************************************************************)
(* Claims.                                                                 *)
(***************************************************************************)
\* C1: after a fatal failure at any step of create_backup no file exists
\* at the output path and the caller has a non-empty error.  Stated for the
\* file this run wrote (a file that was there before the run and was never
\* opened is not counted against the claim) and for runs in which no
\* removal attempted by the cleanup raised.
C1_NoOutputAfterFailure ==
    (pc = "failed" /\ ~removeFailed) =>
        /\ outContent \notin {"partial", "complete"}
        /\ error # ""

\* C2: an interrupt that arrives after the archive was opened closes the
\* handle and leaves no partial archive at the output path.
C2_InterruptRemovesPartial ==
    (pc = "failed" /\ error = "KeyboardInterrupt" /\ tar # "none")
        => (tar = "closed" /\ outContent # "partial")

\* C3: at Done every file of the source tree that no ignore rule matches
\* and that is not inside .git is in the archive exactly once, under its
\* path relative to the parent of the source root.  Stated for the files
\* whose archiving did not raise.
C3_UnmatchedFilesArchivedOnce ==
    pc = "done" =>
        \A f \in disk :
            (~InGit(f) /\ Unmatched(f) /\ f \notin failedFiles)
                => Count(archive, <<Basename(SourceDir)>>
                            \o SubSeq(f, Len(SourceDir) + 1, Len(f))) = 1

\* C4: at Done every file a rule set above it matches (after its
\* negations), and every file under a directory such a rule set matches,
\* is absent from the archive.
C4_IgnoredFilesAbsent ==
    pc = "done" =>
        \A f \in disk : Ignored(f) => Arcname(f) \notin Range(archive)

\* C5: no archive entry lies inside a directory named .git, neither pass
\* descends into one, and no .gitignore inside one is read or registered.
C5_GitNeverEntered ==
    /\ \A i \in 1..Len(archive) :
          \A j \in 1..(Len(archive[i]) - 1) : archive[i][j] # ".git"
    /\ \A d \in Range(stack) : ".git" \notin Range(d)
    /\ \A g \in ignoreRead : ".git" \notin Range(g)
    /\ \A D \in DOMAIN gitignore_specs : ".git" \notin Range(D)

\* C5 witness: a finished run over a tree that has a .gitignore inside
\* .git, with something archived
C5_Witness ==
    /\ pc = "done"
    /\ (SourceDir \o <<".git", ".gitignore">>) \in disk
    /\ archive # <<>>

\* C6: the rule set of directory D excludes only paths of D's subtree:
\* every path excluded on account of the rule sets is matched by the rule
\* set of a directory above it.
C6_RulesStayInSubtree ==
    \A p \in excluded_paths :
        \/ Basename(p) = ".git"
        \/ \E D \in DOMAIN gitignore_specs :
              IsProperPrefix(D, p) /\ MatchFile(gitignore_specs[D], RelPath(p, D))

\* C7: in manifest mode at Done the manifest has one line per source-file
\* entry of the archive, and lists exactly the archived paths.  Stated for
\* an output path outside the source tree.
C7_ManifestMatchesArchive ==
    (pc = "done" /\ verbose /\ ~IsProperPrefix(SourceDir, OutputLocation)) =>
        /\ Len(manifest) = Len(archive) - 1
        /\ Range(manifest) = Range(archive) \ {ManifestName}

\* C8: an exception while one file is added or checksummed is not fatal:
\* the step leaves the run in the write pass with the archive open and the
\* processed count unchanged and moves on to the next file; the run still
\* visits every file and can end Done with the output present.
C8_PerFileFailureIsLocal ==
    /\ [][failedFiles' # failedFiles =>
            /\ pc' \in {"writing", "finalize"}
            /\ error' = ""
            /\ tar' = "open"
            /\ outContent' = "partial"
            /\ processed_files' = processed_files
            /\ curFiles' = Tail(curFiles)
            /\ stack' = stack]_vars
    /\ [](pc \in {"finalize", "close", "rmtemp", "report", "done"} => WalkComplete)
    /\ []((pc = "done" /\ failedFiles # {}) =>
            (outExists /\ processed_files = Cardinality(offered \ failedFiles)))

\* C8 witness: a finished run whose first file raised and whose later file
\* was archived
C8_Witness ==
    /\ pc = "done"
    /\ failedFiles = {SourceDir \o <<"f.log">>}
    /\ (SourceDir \o <<"a", "k.txt">>) \in offered
    /\ Arcname(SourceDir \o <<"a", "k.txt">>) \in Range(archive)
    /\ outContent = "complete"

\* C9: at Done the handle is closed, the output file exists, the value
\* returned is the absolute output path, and no failure came before.
C9_DoneIsClosedAndPresent ==
    pc = "done" => /\ tar = "closed"
                   /\ outContent = "complete"
                   /\ returned = OutputLocation
                   /\ error = ""

\* C9 witness: Done with an output path that was relative
C9_Witness == pc = "done" /\ ~output_file.abs

\* C10: with a source path that is not a directory the constructor raises
\* and nothing else happens: no scan, no temporary directory, the output
\* path untouched, create_backup never started.
C10_InvalidSourceFailsFirst ==
    srcKind # "dir" =>
        /\ pc \in {"init", "ctor_failed"}
        /\ pc = "ctor_failed" => error = "ValueError"
        /\ ~tempExists
        /\ tar = "none"
        /\ outContent \in {"none", "old"}
        /\ total_files = 0
        /\ ignoreRead = {}
        /\ archive = <<>>

\* C10 witness: the constructor has failed and the file that was at the
\* output path is still there
C10_Witness == pc = "ctor_failed" /\ srcKind = "missing" /\ outContent = "old"

\* C11: whenever create_backup has ended, by its return or by a fatal
\* failure raised in the try block, no temporary directory made by the run
\* remains.  (The run ended by KeyboardInterrupt is left aside.)
C11_NoTempDirAfterExit ==
    (pc \in {"done", "failed"} /\ error # "KeyboardInterrupt") => ~tempExists

\* C12: the archive handle, once opened, is closed exactly once; it is
\* closed by the time the except clause, the removal of the temporary
\* directory or the success report is reached; the output file is measured
\* or removed only with the handle closed; the archive is written only with
\* the handle open.
C12_HandleClosedOnceBeforeUse ==
    /\ [](closes = IF tar = "closed" THEN 1 ELSE 0)
    /\ [](pc \in {"except", "failed", "rmtemp", "report", "done"}
            => tar # "open")
    /\ [][(pc = "report" /\ pc' # "report") => (tar = "closed" /\ closes = 1)]_vars
    /\ [][(outExists /\ outContent' = "none") => tar # "open"]_vars
    /\ [][archive' # archive => (tar = "open" /\ tar' = "open")]_vars

\* a failed run whose handle had been opened: closed once, then the partial
\* output removed
C12_Witness ==
    /\ pc = "failed"
    /\ raised = "OSError: add manifest"
    /\ tar = "closed"
    /\ closes = 1
    /\ outContent = "none"
    /\ archive # <<>>

\* C13: the error delivered to the caller of a failed create_backup is the
\* failure raised in the run, whether the removal of the output file
\* succeeded, failed, or had nothing to remove.
C13_CleanupNeverMasks ==
    pc = "failed" => (raised # "" /\ error = raised)

\* failures delivered unchanged although os.remove raised in the except
\* clause
C13_Witness ==
    /\ pc = "failed"
    /\ removeFailed
    /\ error = "OSError: close"


\* C14: a .gitignore of directory D that cannot be read or compiled during
\* the scan registers no rule set for D, and the step that meets it leaves
\* the run alive and counts D's files; once the scan is over, every file
\* outside .git has been counted and every .gitignore outside .git has
\* been tried.
C14_IgnoreReadErrorNonFatal ==
    /\ [](\A D \in readFailed : D \notin DOMAIN gitignore_specs)
    /\ [][readFailed' # readFailed =>
            /\ pc' \in {"scanning", "mktemp"}
            /\ error' = "" /\ raised' = ""
            /\ total_files' = total_files + Len(FileNames(Head(stack)))]_vars
    /\ [](pc \in {"mktemp", "open", "writing", "finalize", "close", "rmtemp",
                  "report", "done"} =>
            /\ total_files = Cardinality({ f \in disk : ~InGit(f) })
            /\ ignoreRead = { g \in IgnoreFilesOf(disk) : ~InGit(g) })

\* the root's .gitignore could not be read; the run went on to archive a
\* file of a subdirectory and returned
C14_Witness ==
    /\ pc = "done"
    /\ SourceDir \in readFailed
    /\ total_files = 2
    /\ \E f \in disk : Len(f) > Len(SourceDir) + 1
                        /\ Arcname(f) \in Range(archive)


\* some negation pattern of the rule set of D matches f
Negated(D, f) ==
    \E i \in 1..Len(gitignore_specs[D]) :
        /\ ~gitignore_specs[D][i].include
        /\ PatternMatch(gitignore_specs[D][i], RelPath(f, D))

\* C15: a file matched by the rule set of any one directory above it is
\* not in the archive, whatever the rule sets of the other directories
\* above it say, a matching negation pattern included.
C15_AnyRuleSetExcludes ==
    \A f \in disk :
        (\E D \in Chain(f) : MatchFile(gitignore_specs[D], RelPath(f, D)))
            => Arcname(f) \notin Range(archive)

\* the root's rule set matches a/.gitignore, the rule set of a negates it,
\* and the finished archive does not hold it
C15_Witness ==
    LET f == SourceDir \o <<"a", ".gitignore">>
    IN  /\ pc = "done"
        /\ f \in disk
        /\ failedFiles = {}
        /\ {SourceDir, Dirname(f)} \subseteq DOMAIN gitignore_specs
        /\ MatchFile(gitignore_specs[SourceDir], RelPath(f, SourceDir))
        /\ Negated(Dirname(f), f)
        /\ f \in excluded_paths
        /\ Arcname(f) \notin Range(archive)


\* the source-file entries of the archive, in the order they were added
SourceEntries == SelectSeq(archive, LAMBDA e : e # ManifestName)

\* C16: in manifest mode the finished archive holds backup_manifest.txt
\* exactly once, as its last entry, and the manifest has one line per
\* archived file in the order the files were added; without manifest mode
\* the archive holds no backup_manifest.txt.  Stated for an output path
\* outside the source tree.
C16_ManifestEntryLastAndComplete ==
    (pc = "done" /\ ~IsProperPrefix(SourceDir, OutputLocation)) =>
        IF verbose
        THEN /\ Count(archive, ManifestName) = 1
             /\ archive[Len(archive)] = ManifestName
             /\ manifest = SourceEntries
        ELSE ManifestName \notin Range(archive)

\* C17: at Done the processed count is the number of source-file entries
\* of the archive.  Stated for an output path outside the source tree.
C17_ProcessedCountsArchived ==
    (pc = "done" /\ ~IsProperPrefix(SourceDir, OutputLocation)) =>
        processed_files = Len(SourceEntries)

\* C18: the processed count never exceeds the total of the scan, so the
\* skipped count is never negative.
C18_ProcessedWithinTotal ==
    /\ 0 <= processed_files
    /\ processed_files <= total_files

\* C19: a file that was at the output path before the run is changed only
\* by the run opening it for writing.
C19_OldOutputKeptUnlessOpened ==
    [][(outContent = "old" /\ outContent' # "old") =>
          (pc = "open" /\ outContent' = "partial")]_vars

=============================================================================
